---- MODULE Spec2Model ----
(***************************************************************************)
(* Model of ros2_scripts/mock_jetson_node.py: MockJetsonNode, a telemetry  *)
(* simulator with a 20 Hz timer callback (publish_telemetry) and a toggle  *)
(* subscription callback (toggle_callback), driven by rclpy.spin.          *)
(*                                                                         *)
(* Floating point values are modelled in fixed point, Scale units per 1.0. *)
(***************************************************************************)
EXTENDS Integers, Sequences, FiniteSets

VARIABLES
    phase,      \* position of __main__: "constructed", "spinning", "returned", "exited", "crashed",
                \* and inside __init__: "ctor_sub", "ctor_timer", "ctor_count", "ctor_shadow"
    context,    \* the rclpy context: "ok" after rclpy.init(), "shutdown" after rclpy.shutdown()
    count,      \* self.count
    shadow_on,  \* self.shadow_on
    pc,         \* position inside publish_telemetry: "idle", "margin", "shadow", "inc"
    bus,        \* history: every publish call made and every toggle message delivered, in order
    pending,    \* toggle messages received by sub_toggle and not yet handed to toggle_callback
    logged      \* history: number of get_logger().info(...) calls made so far

vars == <<phase, context, count, shadow_on, pc, bus, pending, logged>>

----------------------------------------------------------------------------
(* Bounds of the model *)

MaxTick == 3        \* timer firings start only while count < MaxTick
MaxToggles == 3     \* at most this many toggle messages arrive
MaxN == 70          \* largest tick drawn in the single-firing specification

----------------------------------------------------------------------------
(* Fixed point arithmetic for the float expressions of publish_telemetry *)

Scale == 10000                  \* 1.0
Half == 5000                    \* the literal 0.5 (offset and amplitude)
BaseSpeed == 10000              \* the literal 1.0
TimeStep == 1000                \* the literal 0.1
NominalMargin == 20000          \* the literal 2.0
NearMissMargin == 2000          \* the literal 0.2
QueueDepth == 10                \* queue size of the subscription

Pi == 31416
HalfPi == 15708
QuarterPi == 7854
TwoPi == 62832

\* a / b rounded to nearest (b > 0)
RDiv(a, b) == (2 * a + b) \div (2 * b)

\* fixed point product
Mul(a, b) == RDiv(a * b, Scale)

\* first + the next n terms of an alternating power series in x whose
\* successive terms have ratio -x^2 / (k (k+1)), k increasing by 2
RECURSIVE Series(_, _, _, _)
Series(term, x2, k, n) ==
    IF n = 0 THEN term
    ELSE term + Series(-RDiv(Mul(term, x2), k * (k + 1)), x2, k + 2, n - 1)

SinSeries(x) == Series(x, Mul(x, x), 2, 4)
CosSeries(x) == Series(Scale, Mul(x, x), 1, 4)

\* sin on the first quadrant, 0 <= x <= HalfPi
SinQuadrant(x) == IF x <= QuarterPi THEN SinSeries(x) ELSE CosSeries(HalfPi - x)

\* math.sin(t) for t >= 0
Sin(t) ==
    LET r == t % TwoPi IN
    IF r <= HalfPi THEN SinQuadrant(r)
    ELSE IF r <= Pi THEN SinQuadrant(Pi - r)
    ELSE IF r <= Pi + HalfPi THEN -SinQuadrant(r - Pi)
    ELSE -SinQuadrant(TwoPi - r)

\* the waveform with the amplitude 1.0 instead of 0.5
linearVelocity_amp(tick) == Mul(BaseSpeed, Half + Mul(Scale, Sin(tick * TimeStep)))

\* vel_msg.linear.x = 1.0 * (0.5 + 0.5 * math.sin(self.count * 0.1))
linearVelocity(tick) == Mul(BaseSpeed, Half + Mul(Half, Sin(tick * TimeStep)))

\* the two margins the wrong way round
safetyMargin_swapped(mode) == IF mode THEN NominalMargin ELSE NearMissMargin

\* margin = 2.0; if self.shadow_on: margin = 0.2
safetyMargin(mode) == IF mode THEN NearMissMargin ELSE NominalMargin

----------------------------------------------------------------------------
(* Channels and bus events *)

CmdVel == "nav/cmd_vel"
Margin == "nav/margin"
ShadowToggle == "nav/shadow_toggle"
CmdToggle == "nav/cmd/toggle_shadow"

Outbound == {CmdVel, Margin, ShadowToggle}

\* a publish call on an outbound channel; ok = FALSE when the call raised
PubEvent(ch, val, ok) == [ch |-> ch, val |-> val, ok |-> ok]

\* a message delivered to toggle_callback; val is the Bool payload
SubEvent(msg) == [ch |-> CmdToggle, val |-> msg, ok |-> TRUE]

----------------------------------------------------------------------------
(* State after rclpy.init() and MockJetsonNode() *)

Init ==
    /\ phase = "constructed"
    /\ context = "ok"
    /\ count = 0
    /\ shadow_on = FALSE
    /\ pc = "idle"
    /\ bus = <<>>
    /\ pending = 0
    /\ logged = 1

\* A toggle message arrives from the bus while the process lives, at any
\* moment, also in the middle of a firing: the subscription keeps the last
\* QueueDepth messages until the executor takes them.
Arrive ==
    /\ phase \in {"ctor_timer", "ctor_count", "ctor_shadow", "constructed", "spinning"}
    /\ pending' = IF pending < QueueDepth THEN pending + 1 ELSE pending
    /\ UNCHANGED <<phase, context, count, shadow_on, pc, bus, logged>>

\* rclpy.spin(node) is entered
Spin ==
    /\ phase = "constructed"
    /\ phase' = "spinning"
    /\ UNCHANGED <<context, count, shadow_on, pc, bus, pending, logged>>

\* One publish call of publish_telemetry.  The call either returns, and the
\* callback goes on to nextpc, or raises: nothing in publish_telemetry, in
\* rclpy.spin or in __main__ catches the exception, so the callback and the
\* spin loop are left and the process ends before rclpy.shutdown().
Publish(ch, val, ok, nextpc) ==
    /\ bus' = Append(bus, PubEvent(ch, val, ok))
    /\ IF ok
       THEN pc' = nextpc /\ phase' = phase
       ELSE pc' = "idle" /\ phase' = "crashed"

\* the velocity computed from the tick after the increment
TimerFire_incfirst ==
    /\ phase = "spinning"
    /\ pc = "idle"
    /\ \E ok \in BOOLEAN : Publish(CmdVel, linearVelocity(count + 1), ok, "margin")
    /\ UNCHANGED <<context, count, shadow_on, pending, logged>>

\* the timer callback run as soon as the timer exists
TimerFire_early ==
    /\ phase \in {"ctor_count", "ctor_shadow", "constructed", "spinning"}
    /\ pc = "idle"
    /\ \E ok \in BOOLEAN : Publish(CmdVel, linearVelocity(count), ok, "margin")
    /\ UNCHANGED <<context, count, shadow_on, pending, logged>>

\* the timer fires; publish_telemetry runs up to pub_vel.publish
TimerFire ==
    /\ phase = "spinning"
    /\ pc = "idle"
    /\ \E ok \in BOOLEAN : Publish(CmdVel, linearVelocity(count), ok, "margin")
    /\ UNCHANGED <<context, count, shadow_on, pending, logged>>

\* the margin computed as if a waiting toggle had already been applied
PublishMargin_hidden ==
    /\ phase = "spinning"
    /\ pc = "margin"
    /\ \E ok \in BOOLEAN :
          Publish(Margin, safetyMargin(IF pending > 0 THEN ~shadow_on ELSE shadow_on),
                  ok, "shadow")
    /\ UNCHANGED <<context, count, shadow_on, pending, logged>>

\* publish_telemetry: margin computed and pub_margin.publish
PublishMargin ==
    /\ phase = "spinning"
    /\ pc = "margin"
    /\ \E ok \in BOOLEAN : Publish(Margin, safetyMargin(shadow_on), ok, "shadow")
    /\ UNCHANGED <<context, count, shadow_on, pending, logged>>

\* publish_telemetry: pub_shadow.publish
PublishShadow ==
    /\ phase = "spinning"
    /\ pc = "shadow"
    /\ \E ok \in BOOLEAN : Publish(ShadowToggle, shadow_on, ok, "inc")
    /\ UNCHANGED <<context, count, shadow_on, pending, logged>>

\* the near miss mode switched off again at the end of the firing
Increment_recover ==
    /\ phase = "spinning"
    /\ pc = "inc"
    /\ count' = count + 1
    /\ pc' = "idle"
    /\ shadow_on' = FALSE
    /\ UNCHANGED <<phase, context, bus, pending, logged>>

\* publish_telemetry: self.count += 1, and the callback returns
Increment ==
    /\ phase = "spinning"
    /\ pc = "inc"
    /\ count' = count + 1
    /\ pc' = "idle"
    /\ UNCHANGED <<phase, context, shadow_on, bus, pending, logged>>

\* the mode switched on instead of flipped
toggle_callback_set(msg) ==
    /\ phase = "spinning"
    /\ pc = "idle"
    /\ pending > 0
    /\ pending' = pending - 1
    /\ shadow_on' = TRUE
    /\ logged' = logged + 1
    /\ bus' = Append(bus, SubEvent(msg))
    /\ UNCHANGED <<phase, context, count, pc>>

\* the mode taken from the payload of the message
toggle_callback_payload(msg) ==
    /\ phase = "spinning"
    /\ pc = "idle"
    /\ pending > 0
    /\ pending' = pending - 1
    /\ shadow_on' = msg
    /\ logged' = logged + 1
    /\ bus' = Append(bus, SubEvent(msg))
    /\ UNCHANGED <<phase, context, count, pc>>

\* the toggle handled by a second executor thread, also inside a firing
toggle_callback_threaded(msg) ==
    /\ phase = "spinning"
    /\ pending > 0
    /\ pending' = pending - 1
    /\ shadow_on' = ~shadow_on
    /\ logged' = logged + 1
    /\ bus' = Append(bus, SubEvent(msg))
    /\ UNCHANGED <<phase, context, count, pc>>

\* The executor of rclpy.spin is single threaded: a waiting toggle message
\* is handed to toggle_callback only between callbacks, never inside
\* publish_telemetry.
toggle_callback(msg) ==
    /\ phase = "spinning"
    /\ pc = "idle"
    /\ pending > 0
    /\ pending' = pending - 1
    /\ shadow_on' = ~shadow_on
    /\ logged' = logged + 1
    /\ bus' = Append(bus, SubEvent(msg))
    /\ UNCHANGED <<phase, context, count, pc>>

\* rclpy.spin returns normally (the context was asked to stop)
SpinReturns ==
    /\ phase = "spinning"
    /\ pc = "idle"
    /\ phase' = "returned"
    /\ UNCHANGED <<context, count, shadow_on, pc, bus, pending, logged>>

\* rclpy.shutdown(), the last line of __main__
Shutdown ==
    /\ phase = "returned"
    /\ phase' = "exited"
    /\ context' = "shutdown"
    /\ UNCHANGED <<count, shadow_on, pc, bus, pending, logged>>

\* number of toggle messages delivered so far
RECURSIVE CountCh(_, _)
CountCh(s, ch) ==
    IF s = <<>> THEN 0
    ELSE (IF s[Len(s)].ch = ch THEN 1 ELSE 0) + CountCh(SubSeq(s, 1, Len(s) - 1), ch)

Toggles == CountCh(bus, CmdToggle)

Next ==
    \/ Spin
    \/ (count < MaxTick /\ TimerFire)
    \/ PublishMargin
    \/ PublishShadow
    \/ Increment
    \/ (Toggles + pending < MaxToggles /\ Arrive)
    \/ (Toggles < MaxToggles /\ \E msg \in BOOLEAN : toggle_callback(msg))
    \/ SpinReturns
    \/ Shutdown

Spec == Init /\ [][Next]_vars

----------------------------------------------------------------------------
(* A single firing of publish_telemetry from any tick and either mode *)

InitVel ==
    /\ phase = "spinning"
    /\ context = "ok"
    /\ count \in 0..MaxN
    /\ shadow_on \in BOOLEAN
    /\ pc = "idle"
    /\ bus = <<>>
    /\ pending = 0
    /\ logged = 1

NextVel ==
    \/ (bus = <<>> /\ TimerFire)
    \/ PublishMargin
    \/ PublishShadow
    \/ Increment

SpecVel == InitVel /\ [][NextVel]_vars

----------------------------------------------------------------------------
(* The spinning node with no external shutdown: rclpy.spin never returns on
   its own.  The 20 Hz timer is ready again every 50 ms and the executor
   runs a ready callback to its end, so every step of publish_telemetry is
   weakly fair; the arrival of toggle messages is up to the outside. *)

NextLive ==
    \/ Spin
    \/ (count < MaxTick /\ TimerFire)
    \/ PublishMargin
    \/ PublishShadow
    \/ Increment
    \/ (Toggles + pending < MaxToggles /\ Arrive)
    \/ (Toggles < MaxToggles /\ \E msg \in BOOLEAN : toggle_callback(msg))

Fairness ==
    /\ WF_vars(Spin)
    /\ WF_vars(count < MaxTick /\ TimerFire)
    /\ WF_vars(PublishMargin)
    /\ WF_vars(PublishShadow)
    /\ WF_vars(Increment)

SpecLive == Init /\ [][NextLive]_vars /\ Fairness

----------------------------------------------------------------------------
(* The constructor from create_subscription on, statement by statement.
   self.count and self.shadow_on do not exist before their assignments:
   what the variables hold until then is arbitrary. *)

InitCtor ==
    /\ phase = "ctor_sub"
    /\ context = "ok"
    /\ count \in 0..MaxTick
    /\ shadow_on \in BOOLEAN
    /\ pc = "idle"
    /\ bus = <<>>
    /\ pending = 0
    /\ logged = 0

\* self.sub_toggle = self.create_subscription(...)
CreateSubscription ==
    /\ phase = "ctor_sub"
    /\ phase' = "ctor_timer"
    /\ UNCHANGED <<context, count, shadow_on, pc, bus, pending, logged>>

\* self.timer = self.create_timer(0.05, self.publish_telemetry)
CreateTimer ==
    /\ phase = "ctor_timer"
    /\ phase' = "ctor_count"
    /\ UNCHANGED <<context, count, shadow_on, pc, bus, pending, logged>>

\* self.count = 0
AssignCount ==
    /\ phase = "ctor_count"
    /\ count' = 0
    /\ phase' = "ctor_shadow"
    /\ UNCHANGED <<context, shadow_on, pc, bus, pending, logged>>

\* self.shadow_on = False, the start message, and __init__ returns
AssignShadow ==
    /\ phase = "ctor_shadow"
    /\ shadow_on' = FALSE
    /\ logged' = logged + 1
    /\ phase' = "constructed"
    /\ UNCHANGED <<context, count, pc, bus, pending>>

NextCtor ==
    \/ CreateSubscription
    \/ CreateTimer
    \/ AssignCount
    \/ AssignShadow
    \/ Spin
    \/ (count < MaxTick /\ TimerFire)
    \/ PublishMargin
    \/ PublishShadow
    \/ Increment
    \/ (Toggles + pending < MaxToggles /\ Arrive)
    \/ (Toggles < MaxToggles /\ \E msg \in BOOLEAN : toggle_callback(msg))
    \/ SpinReturns
    \/ Shutdown

SpecCtor == InitCtor /\ [][NextCtor]_vars

----------------------------------------------------------------------------
(* Reading the history *)

\* number of toggle messages delivered before position i of the bus history
TogglesBefore(i) == CountCh(SubSeq(bus, 1, i - 1), CmdToggle)

\* position i holds a publish call on channel ch
IsPub(i, ch) == i \in DOMAIN bus /\ bus[i].ch = ch

\* positions i, i+1, i+2 hold the three publish calls of one firing
IsSample(i) == IsPub(i, CmdVel) /\ IsPub(i + 1, Margin) /\ IsPub(i + 2, ShadowToggle)

TypeOK ==
    /\ phase \in {"ctor_sub", "ctor_timer", "ctor_count", "ctor_shadow",
                 "constructed", "spinning", "returned", "exited", "crashed"}
    /\ context \in {"ok", "shutdown"}
    /\ count \in 0..MaxTick
    /\ shadow_on \in BOOLEAN
    /\ pc \in {"idle", "margin", "shadow", "inc"}
    /\ logged \in 0..(MaxToggles + 1)
    /\ pending \in 0..QueueDepth

----------------------------------------------------------------------------
(* C1: from the constructed node the first firing publishes velocity 0.5,
   margin 2.0 and shadow false; when exactly one toggle is delivered before
   the second firing, that firing publishes the tick 1 velocity
   0.5 + 0.5 sin(0.1) = 0.5499, margin 0.2 and shadow true.  In general a
   single toggle delivered between two firings shows in the very next
   firing: its shadow value is the negation of the previous firing's and
   its margin is the margin of that negated mode. *)
C1_ToggleSeenByNextFiring ==
    /\ IsPub(1, CmdVel) => bus[1].val = 5000
    /\ IsPub(1, CmdVel) /\ IsPub(2, Margin) => bus[2].val = 20000
    /\ IsPub(1, CmdVel) /\ IsPub(3, ShadowToggle) => bus[3].val = FALSE
    /\ IsSample(1) /\ IsPub(4, CmdToggle) =>
          /\ IsPub(5, CmdVel) => bus[5].val = 5499
          /\ IsPub(5, CmdVel) /\ IsPub(6, Margin) => bus[6].val = 2000
          /\ IsPub(5, CmdVel) /\ IsPub(7, ShadowToggle) => bus[7].val = TRUE
    /\ \A i \in DOMAIN bus :
          IsSample(i) /\ IsPub(i + 3, CmdToggle) /\ IsPub(i + 4, CmdVel) =>
             /\ IsPub(i + 5, Margin) =>
                   bus[i + 5].val = safetyMargin(~bus[i + 2].val)
             /\ IsPub(i + 6, ShadowToggle) => bus[i + 6].val = ~bus[i + 2].val

\* the scenario of C1 has run: firing, one toggle, firing
C1_Witness ==
    /\ IsSample(1) /\ IsPub(4, CmdToggle) /\ IsSample(5)
    /\ bus[7].ok
    /\ pc = "inc"

(* C2: shadow_on is true exactly when an odd number of toggle messages has
   been delivered; two toggles delivered back to back after a firing that
   published shadow false (or from the start) leave the mode false, and
   the next firing publishes margin 2.0 and shadow false. *)
C2_NoLostToggle ==
    /\ shadow_on = (Toggles % 2 = 1)
    /\ \A i \in DOMAIN bus :
          /\ IsPub(i, CmdToggle) /\ IsPub(i + 1, CmdToggle) /\ IsPub(i + 2, CmdVel)
          /\ (i = 1 \/ (IsPub(i - 1, ShadowToggle) /\ bus[i - 1].val = FALSE))
          => /\ IsPub(i + 3, Margin) => bus[i + 3].val = 20000
             /\ IsPub(i + 4, ShadowToggle) => bus[i + 4].val = FALSE

\* a firing, then two toggles, then a complete firing
C2_Witness ==
    /\ IsSample(1) /\ IsPub(4, CmdToggle) /\ IsPub(5, CmdToggle) /\ IsSample(6)
    /\ bus[8].ok
    /\ shadow_on = FALSE

(* C3: every value handed to nav/margin is 2.0 or 0.2; it is 0.2 exactly
   when shadow_on is true as the firing reads it, and it follows the number
   of toggles delivered before the firing, so a flip shows as a step in the
   first firing after it. *)
C3_MarginIsStep ==
    /\ \A i \in DOMAIN bus :
          bus[i].ch = Margin =>
             /\ bus[i].val \in {20000, 2000}
             /\ (bus[i].val = 2000) <=> (TogglesBefore(i) % 2 = 1)
    /\ pc = "shadow" => ((bus[Len(bus)].val = 2000) <=> shadow_on)
    /\ pc = "shadow" => ((bus[Len(bus)].val = 20000) <=> ~shadow_on)

\* a firing has just published the near miss margin after a flip
C3_Witness ==
    /\ pc = "shadow"
    /\ shadow_on
    /\ bus[Len(bus)].val = 2000
    /\ \E i \in DOMAIN bus : bus[i].ch = Margin /\ bus[i].val = 20000

(* C4: a publish call that fails inside a firing is logged and is not fatal:
   the process keeps spinning (or ends by the normal return of spin), so
   the counter still advances and the next firing takes place. *)
C4_FailedPublishNotFatal ==
    \A i \in DOMAIN bus :
        (bus[i].ch \in Outbound /\ ~bus[i].ok) =>
            /\ phase \in {"spinning", "returned", "exited"}
            /\ logged > 1 + Toggles

(* C5: the value handed to nav/shadow_toggle is shadow_on as it stands at
   that firing, and it still is after the firing has returned; two firings
   with no toggle delivered between them publish the same margin and the
   same shadow value; shadow_on changes only in a step that delivers a
   toggle message, never in a step of publish_telemetry. *)
C5_OnlyToggleChangesMode ==
    /\ [](/\ (bus # <<>> /\ bus[Len(bus)].ch = ShadowToggle)
                => bus[Len(bus)].val = shadow_on
          /\ \A i \in DOMAIN bus :
                IsSample(i) /\ IsPub(i + 3, CmdVel) =>
                   /\ IsPub(i + 4, Margin) => bus[i + 4].val = bus[i + 1].val
                   /\ IsPub(i + 5, ShadowToggle) => bus[i + 5].val = bus[i + 2].val)
    /\ [][/\ shadow_on' # shadow_on =>
                (bus' # bus /\ bus'[Len(bus')].ch = CmdToggle)
          /\ (pc # "idle" \/ pc' # "idle") => shadow_on' = shadow_on]_vars

\* two complete firings in near miss mode with no toggle between them
C5_Witness ==
    \E i \in DOMAIN bus :
        /\ IsSample(i) /\ IsSample(i + 3)
        /\ bus[i + 2].val = TRUE /\ bus[i + 5].val = TRUE /\ bus[i + 5].ok
        /\ pc = "idle" /\ phase = "spinning" /\ shadow_on

(* C6: count starts at 0, every firing of publish_telemetry adds exactly
   one to it, nothing else changes it, and the k-th firing (k = 0, 1, ...)
   computes its velocity from tick k. *)
C6_EveryFiringIncrements ==
    /\ count >= 0
    /\ pc = "idle" => count = CountCh(bus, CmdVel)
    /\ \A i \in DOMAIN bus :
          bus[i].ch = CmdVel =>
             bus[i].val = linearVelocity(CountCh(SubSeq(bus, 1, i - 1), CmdVel))

(* C7: the Bool carried by a toggle message has no influence: whichever
   payload is delivered, the step flips shadow_on and leaves count, the
   position of the callbacks and the process alone, so the state and what
   is published afterwards are the same for either payload. *)
C7_PayloadIgnored ==
    [][\A msg \in BOOLEAN :
          bus' = Append(bus, SubEvent(msg)) =>
             /\ shadow_on' = ~shadow_on
             /\ count' = count
             /\ pc' = pc
             /\ phase' = phase
             /\ context' = context]_vars

\* a message carrying true has just switched the mode off, and the next
\* firing has published the nominal margin
C7_Witness ==
    /\ Len(bus) >= 4
    /\ IsPub(Len(bus) - 2, CmdToggle) /\ bus[Len(bus) - 2].val = TRUE
    /\ IsPub(Len(bus) - 1, CmdVel)
    /\ IsPub(Len(bus), Margin) /\ bus[Len(bus)].val = 20000
    /\ Toggles = 2

(* C8: every firing makes exactly one publish on nav/cmd_vel, then one on
   nav/margin, then one on nav/shadow_toggle, and count is incremented
   only after the three; no firing publishes on fewer channels, and a
   toggle delivery publishes nothing. *)
C8_OneSamplePerFiring ==
    /\ \A i \in DOMAIN bus :
          /\ bus[i].ch = Margin => IsPub(i - 1, CmdVel)
          /\ bus[i].ch = ShadowToggle => IsPub(i - 1, Margin)
    /\ pc = "idle" =>
          /\ \A i \in DOMAIN bus :
                bus[i].ch = CmdVel =>
                   IsSample(i) /\ bus[i].ok /\ bus[i + 1].ok /\ bus[i + 2].ok
          /\ count = CountCh(bus, ShadowToggle)

(* C9: at every tick the velocity handed to nav/cmd_vel lies in [0, 1.0],
   at tick 0 it is exactly 0.5, and it is the waveform value of the tick
   whatever shadow_on is. *)
C9_VelocityInRange ==
    \A i \in DOMAIN bus :
        bus[i].ch = CmdVel =>
            LET tick == IF i = 1 /\ Len(bus) = 3 /\ pc = "idle" /\ phase = "spinning"
                        THEN count - 1 ELSE count
            IN  /\ bus[i].val >= 0
                /\ bus[i].val <= 10000
                /\ tick = 0 => bus[i].val = 5000
                /\ i = 1 => bus[i].val = linearVelocity(tick)

\* a firing in near miss mode near the trough of the waveform (t = 4.7)
C9_Witness ==
    /\ IsSample(1)
    /\ bus[1].val < 10
    /\ bus[3].val = TRUE
    /\ count = 47

(* C10: the timer is released on every way out of the running state: once
   the process has ended, by the return of spin or by an exception that
   escaped a callback, the context that holds the timer has been shut
   down. *)
C10_TimerReleasedOnEveryPath ==
    phase \in {"exited", "crashed"} => context = "shutdown"

(* C11: the scheduler has no terminal state: with the timer scheduled
   fairly and no external shutdown the node keeps firing, so the sample of
   every tick is eventually published in full (here up to tick
   MaxTick - 1, after which count = MaxTick), whatever toggles arrive. *)
C11_KeepsFiring ==
    /\ <>(count = MaxTick /\ pc = "idle" /\ phase = "spinning")
    /\ \A n \in 0..(MaxTick - 1) :
          <>(\E i \in DOMAIN bus :
                /\ IsSample(i) /\ bus[i].ok /\ bus[i + 1].ok /\ bus[i + 2].ok
                /\ CountCh(SubSeq(bus, 1, i - 1), CmdVel) = n)

(* C12: a sample is consistent in itself although toggles arrive while a
   firing runs: the margin of a firing is 0.2 exactly when the shadow value
   of the same firing is true, because an arrived toggle waits until the
   firing has returned; inside a firing the last thing on the bus is the
   firing's own publish, never a toggle delivery. *)
C12_SampleConsistent ==
    /\ \A i \in DOMAIN bus :
          IsPub(i, Margin) /\ IsPub(i + 1, ShadowToggle) =>
             /\ (bus[i].val = 2000) <=> (bus[i + 1].val = TRUE)
             /\ (bus[i].val = 20000) <=> (bus[i + 1].val = FALSE)
    /\ pc = "margin" => IsPub(Len(bus), CmdVel)
    /\ pc = "shadow" => IsPub(Len(bus), Margin)
    /\ pc = "inc" => IsPub(Len(bus), ShadowToggle)

\* a toggle message waits undelivered while a firing has made both reads of
\* shadow_on and published a consistent sample
C12_Witness ==
    /\ pc = "inc"
    /\ pending > 0
    /\ IsSample(Len(bus) - 2)
    /\ bus[Len(bus) - 1].val = 20000
    /\ bus[Len(bus)].val = FALSE
    /\ shadow_on = FALSE

(* C13: the sample of a firing is a function of count and shadow_on alone:
   when a firing has made its three publishes they are the waveform value
   of count, the margin of shadow_on and shadow_on itself, whatever the
   history, the waiting messages and the log; any two samples of a run
   with the same shadow value carry the same margin, and the velocity of
   the k-th firing is the waveform value of k. *)
C13_SampleIsFunctionOfState ==
    /\ pc = "inc" =>
          /\ bus[Len(bus) - 2].val = linearVelocity(count)
          /\ bus[Len(bus) - 1].val = safetyMargin(shadow_on)
          /\ bus[Len(bus)].val = shadow_on
    /\ \A i, j \in DOMAIN bus :
          IsSample(i) /\ IsSample(j) /\ bus[i + 2].val = bus[j + 2].val =>
             bus[i + 1].val = bus[j + 1].val
    /\ \A i \in DOMAIN bus :
          IsSample(i) =>
             bus[i].val = linearVelocity(CountCh(SubSeq(bus, 1, i - 1), CmdVel))

\* the first and the third firing published in the same mode, with two
\* toggles and a firing in the other mode between them, and a message waiting
C13_Witness ==
    /\ pc = "inc"
    /\ IsSample(1) /\ IsPub(4, CmdToggle) /\ IsSample(5) /\ IsPub(8, CmdToggle)
    /\ IsSample(9)
    /\ bus[3].val = FALSE /\ bus[7].val = TRUE /\ bus[11].val = FALSE
    /\ bus[4].val # bus[8].val
    /\ pending > 0

(* C14: no callback sees an attribute that is not assigned yet: the
   subscription and the timer exist before self.count and self.shadow_on
   do, but nothing is published and no toggle is delivered before the
   constructor has returned and spin has been entered; the first firing
   computes from count = 0, and shadow_on is false until the first toggle
   is delivered and true after it. *)
C14_NoCallbackBeforeSpin ==
    /\ phase \in {"ctor_sub", "ctor_timer", "ctor_count", "ctor_shadow", "constructed"}
          => bus = <<>> /\ pc = "idle"
    /\ phase \in {"constructed", "spinning"} /\ bus = <<>>
          => count = 0 /\ shadow_on = FALSE
    /\ \A i \in DOMAIN bus :
          IsPub(i, CmdVel) /\ CountCh(SubSeq(bus, 1, i - 1), CmdVel) = 0
             => bus[i].val = 5000
    /\ phase \notin {"ctor_sub", "ctor_timer", "ctor_count", "ctor_shadow"}
          => /\ Toggles = 0 => shadow_on = FALSE
             /\ Toggles = 1 => shadow_on = TRUE

\* the timer exists, a toggle message has arrived, and neither attribute
\* has its initial value yet
C14_Witness ==
    /\ phase = "ctor_count"
    /\ pending > 0
    /\ count # 0
    /\ shadow_on = TRUE
    /\ bus = <<>>

====
